---- MODULE Spec2Model ----
(***************************************************************************)
(* A model of the status-report tool: StatusTool.run polls a list of       *)
(* servers through asyncio tasks, parses each /status payload with         *)
(* StatusData.from_json, accumulates the counts per (application, version) *)
(* in ReportAggregator and writes the report with ReportWriter.            *)
(*                                                                         *)
(* The event loop is modelled explicitly: `running` is the task that holds *)
(* the loop; a task gives the loop up only where the code awaits.          *)
(***************************************************************************)
EXTENDS Integers, Sequences, FiniteSets, TLC

\* Bounds of the model.
MaxServers == 3      \* longest server list read from the file

VARIABLES
    pcMain,     \* position of main()/StatusTool.run
    servers,    \* the list returned by _read_servers
    limit,      \* Config.MAX_CONCURRENCY, as given to TCPConnector
    pc,         \* pc[i]: position of the task of servers[i]
    resp,       \* resp[i]: what the server answered to the task's request
    existing,   \* existing[i]: add_status's local `existing` in task i
    running,    \* the task holding the event loop, 0 when none does
    agg_data,   \* ReportAggregator._agg_data, in insertion order
    fetched,    \* fetched[i]: calls of fetch_status made for servers[i]
    ingested,   \* ingested[i]: add_status calls completed for servers[i]
    warned,     \* warned[i]: "Warning: Failed to fetch" lines of task i
    errored,    \* errored[i]: "[ERROR] Could not process" lines of task i
    results,    \* the list returned by get_results
    report,     \* the output file: empty while there is none, else the
                \* one JSON array ReportWriter.write dumped last
    exitCode,   \* the process exit code, -1 while running
    payload,    \* the decoded body handed to StatusData.from_json
    parsed,     \* what from_json made of `payload`: a StatusData or an exception
    file        \* the lines of the servers file handed to _read_servers

vars == <<pcMain, servers, limit, pc, resp, existing, running, agg_data,
          fetched, ingested, warned, errored, results, report, exitCode,
          payload, parsed, file>>

----------------------------------------------------------------------------
\* JSON values of a payload.  A text is kept as a sequence of characters
\* where the code parses it (the numeric fields) and as a name where the
\* code only carries it (Application, Version).

JText(name) == [t |-> "str", name |-> name]
JTextArr == [t |-> "list", name |-> ""]
JTextMissing == [t |-> "missing", name |-> ""]

JNum(n) == [t |-> "num", n |-> n, s |-> <<>>]
\* A JSON number with a fraction, json.loads makes a float of it: n tenths.
JFloat(n) == [t |-> "float", n |-> n, s |-> <<>>]
JStr(s) == [t |-> "str", n |-> 0, s |-> s]
JNull == [t |-> "null", n |-> 0, s |-> <<>>]
JMissing == [t |-> "missing", n |-> 0, s |-> <<>>]

Digits == <<"0", "1", "2", "3", "4", "5", "6", "7", "8", "9">>

IsDigit(c) == \E d \in 1..Len(Digits) : Digits[d] = c

DigitVal(c) == (CHOOSE d \in 1..Len(Digits) : Digits[d] = c) - 1

RECURSIVE DigitsVal(_)
\* The value of a run of decimal digits.
DigitsVal(s) ==
    IF Len(s) = 0 THEN 0
    ELSE 10 * DigitsVal(SubSeq(s, 1, Len(s) - 1)) + DigitVal(s[Len(s)])

Signed(s) == Len(s) > 0 /\ s[1] \in {"-", "+"}

Unsigned(s) == IF Signed(s) THEN Tail(s) ELSE s

AllDigits(s) == \A k \in 1..Len(s) : IsDigit(s[k])

\* int(str): an optional sign and at least one digit, nothing else.
IntStrOk(s) == Len(Unsigned(s)) > 0 /\ AllDigits(Unsigned(s))

IntStrVal(s) ==
    IF Signed(s) /\ s[1] = "-" THEN 0 - DigitsVal(Unsigned(s))
    ELSE DigitsVal(Unsigned(s))

\* The exception int(v) raises, "none" when it returns.
IntExc(v) ==
    CASE v.t = "missing" -> "KeyError"
      [] v.t = "null" -> "TypeError"
      [] v.t = "list" -> "TypeError"
      [] v.t = "num" -> "none"
      [] v.t = "float" -> "none"
      [] v.t = "str" -> IF IntStrOk(v.s) THEN "none" ELSE "ValueError"

\* int(float) drops the fraction, towards zero.
Truncated(n, den) == IF n >= 0 THEN n \div den ELSE 0 - ((0 - n) \div den)

IntVal(v) ==
    CASE v.t = "num" -> v.n
      [] v.t = "float" -> Truncated(v.n, 10)
      [] OTHER -> IntStrVal(v.s)

\* float(str) over the characters used here: an optional sign, digits with
\* at most one point, at least one digit.
DotCount(s) == Cardinality({k \in 1..Len(s) : s[k] = "."})

NoDots(s) == SelectSeq(s, LAMBDA c : c # ".")

FloatStrOk(s) ==
    /\ DotCount(Unsigned(s)) <= 1
    /\ Len(NoDots(Unsigned(s))) > 0
    /\ AllDigits(NoDots(Unsigned(s)))

FracLen(s) ==
    IF DotCount(s) = 0 THEN 0
    ELSE Len(s) - (CHOOSE k \in 1..Len(s) : s[k] = ".")

RECURSIVE Pow10(_)
Pow10(k) == IF k = 0 THEN 1 ELSE 10 * Pow10(k - 1)

\* A float is kept exactly, as numerator over a power of ten.
FloatStrVal(s) ==
    [num |-> (IF Signed(s) /\ s[1] = "-" THEN -1 ELSE 1)
                * DigitsVal(NoDots(Unsigned(s))),
     den |-> Pow10(FracLen(Unsigned(s)))]

FloatExc(v) ==
    CASE v.t = "missing" -> "KeyError"
      [] v.t = "null" -> "TypeError"
      [] v.t = "list" -> "TypeError"
      [] v.t = "num" -> "none"
      [] v.t = "float" -> "none"
      [] v.t = "str" -> IF FloatStrOk(v.s) THEN "none" ELSE "ValueError"

FloatVal(v) ==
    CASE v.t = "num" -> [num |-> v.n, den |-> 1]
      [] v.t = "float" -> [num |-> v.n, den |-> 10]
      [] OTHER -> FloatStrVal(v.s)

\* data[key]: KeyError when the key is absent.
SubscriptExc(v) == IF v.t = "missing" THEN "KeyError" ELSE "none"

\* A payload: the decoded JSON body.  shape "array" stands for a body that
\* is valid JSON but not an object.
Payload(shape, app, ver, up, req, err, succ) ==
    [shape |-> shape, Application |-> app, Version |-> ver, Uptime |-> up,
     Request_Count |-> req, Error_Count |-> err, Success_Count |-> succ]

\* The exceptions of the six argument expressions of cls(...), in the order
\* Python evaluates them.
ArgExcs(data) ==
    <<SubscriptExc(data.Application), SubscriptExc(data.Version),
      FloatExc(data.Uptime), IntExc(data.Request_Count),
      IntExc(data.Error_Count), IntExc(data.Success_Count)>>

FirstExc(excs) ==
    IF \A k \in 1..Len(excs) : excs[k] = "none" THEN "none"
    ELSE excs[CHOOSE k \in 1..Len(excs) :
                /\ excs[k] # "none"
                /\ \A j \in 1..(k - 1) : excs[j] = "none"]

\* A bug: an absent key is read with a default (data.get(key, 0)).
FromJsonExcDefaulting(data) ==
    IF data.shape # "object" THEN "TypeError"
    ELSE LET e == FirstExc(SelectSeq(ArgExcs(data), LAMBDA x : x # "KeyError"))
         IN IF e = "ValueError" THEN "ValueError" ELSE e

\* The exception that leaves from_json: KeyError and ValueError are turned
\* into ValueError, anything else passes through the except clause.
FromJsonExc(data) ==
    IF data.shape # "object" THEN "TypeError"
    ELSE LET e == FirstExc(ArgExcs(data))
         IN IF e \in {"KeyError", "ValueError"} THEN "ValueError" ELSE e

\* A bug: Request_Count and Success_Count are read into each other's field.
from_json_swapped(data) ==
    [application |-> data.Application,
     version |-> data.Version,
     uptime |-> FloatVal(data.Uptime),
     request_count |-> IntVal(data.Success_Count),
     error_count |-> IntVal(data.Error_Count),
     success_count |-> IntVal(data.Request_Count)]

\* The StatusData from_json returns when it raises nothing.
from_json(data) ==
    [application |-> data.Application,
     version |-> data.Version,
     uptime |-> FloatVal(data.Uptime),
     request_count |-> IntVal(data.Request_Count),
     error_count |-> IntVal(data.Error_Count),
     success_count |-> IntVal(data.Success_Count)]

----------------------------------------------------------------------------
\* ReportAggregator.  _agg_data is a dict; it is kept as the sequence of its
\* items in insertion order, which is the order dict.items() yields.

\* A bug: the records are grouped by application alone.
KeyOfApplication(status) == <<status.application, status.application>>

KeyOf(status) == <<status.application, status.version>>

\* A key holding a JSON array cannot be hashed: dict.get raises TypeError.
Hashable(key) == key[1].t # "list" /\ key[2].t # "list"

HasKey(a, key) == \E k \in 1..Len(a) : a[k].key = key

IndexOf(a, key) == CHOOSE k \in 1..Len(a) : a[k].key = key

dict_get(a, key, default) ==
    IF HasKey(a, key) THEN a[IndexOf(a, key)].val ELSE default

dict_set(a, key, val) ==
    IF HasKey(a, key) THEN [a EXCEPT ![IndexOf(a, key)].val = val]
    ELSE Append(a, [key |-> key, val |-> val])

\* A bug: the bucket is not looked up, every record starts from (0, 0).
add_status_read_default(a, status) == <<0, 0>>

\* add_status up to the read of the bucket: `existing`.
add_status_read(a, status) == dict_get(a, KeyOf(status), <<0, 0>>)

\* A bug: the bucket is overwritten with the record's counts.
add_status_write_overwrite(a, status, ex) ==
    dict_set(a, KeyOf(status), <<status.success_count, status.request_count>>)

\* A bug: the two counts are added to each other's total.
add_status_write_swapped(a, status, ex) ==
    dict_set(a, KeyOf(status),
             <<ex[1] + status.request_count, ex[2] + status.success_count>>)

\* add_status from the additions to the write back.
add_status_write(a, status, ex) ==
    dict_set(a, KeyOf(status),
             <<ex[1] + status.success_count, ex[2] + status.request_count>>)

\* add_status run without interruption.
add_status(a, status) == add_status_write(a, status, add_status_read(a, status))

Abs(n) == IF n < 0 THEN 0 - n ELSE n

RECURSIVE Gcd(_, _)
Gcd(m, n) == IF n = 0 THEN m ELSE Gcd(n, m % n)

\* The quotient succ / req, kept exactly as a fraction in lowest terms.
Quotient(succ, req) ==
    LET g == Gcd(Abs(succ), Abs(req))
    IN [num |-> succ \div g, den |-> req \div g]

Zero == [num |-> 0, den |-> 1]

\* The success_rate get_results computes for one bucket.
success_rate(succ, req) == IF req > 0 THEN Quotient(succ, req) ELSE Zero

\* The entry get_results makes of one item of the dict.
ResultOf(item) ==
    [application |-> item.key[1],
     version |-> item.key[2],
     total_requests |-> item.val[2],
     total_success |-> item.val[1],
     success_rate |-> success_rate(item.val[1], item.val[2])]

\* A bug, and what the docstring announces: the entries with
\* total_requests == 0 are skipped.
get_results_skipping(a) ==
    LET kept == SelectSeq(a, LAMBDA item : item.val[2] # 0)
    IN [k \in 1..Len(kept) |-> ResultOf(kept[k])]

get_results(a) == [k \in 1..Len(a) |-> ResultOf(a[k])]

\* A bug: every link is built from the first record.
write_links_of_first(res) ==
    [k \in 1..Len(res) |->
        [application |-> res[k].application,
         version |-> res[k].version,
         total_requests |-> res[k].total_requests,
         total_success |-> res[k].total_success,
         success_rate |-> res[k].success_rate,
         links |-> [self |-> <<"/apps/", res[1].application.name, "/",
                               res[1].version.name, "/info">>]]]

\* ReportWriter.write: the array dumped to the output file.
write(res) ==
    [k \in 1..Len(res) |->
        [application |-> res[k].application,
         version |-> res[k].version,
         total_requests |-> res[k].total_requests,
         total_success |-> res[k].total_success,
         success_rate |-> res[k].success_rate,
         links |-> [self |-> <<"/apps/", res[k].application.name, "/",
                               res[k].version.name, "/info">>]]]

----------------------------------------------------------------------------
\* What a server can answer.

\* The (Application, Version) pairs the servers report.
Pairs == {<<"App1", "1.0">>, <<"App1", "2.0">>, <<"App2", "1.0">>}

\* <<Success_Count, Request_Count>> of the well-formed payloads.
RunCounts == {<<0, 0>>, <<1, 2>>}

CountStr(n) == <<Digits[n + 1]>>

GoodPayloads ==
    {Payload("object", JText(p[1]), JText(p[2]), JStr(<<"1", ".", "5">>),
             JStr(CountStr(c[2])), JNum(c[2] - c[1]), JNum(c[1])) :
        p \in Pairs, c \in RunCounts}

BadPayloads ==
    {Payload("object", JText("App1"), JText("1.0"), JNum(1),
             JNum(2), JNum(1), JMissing)}

\* Accepted by from_json, refused by the aggregator's dict.
UnhashablePayloads ==
    {Payload("object", JTextArr, JText("1.0"), JNum(1),
             JNum(2), JNum(1), JNum(1))}

NoBody ==
    Payload("none", JTextMissing, JTextMissing, JMissing,
            JMissing, JMissing, JMissing)

FailureKinds == {"transport", "timeout", "http_error", "bad_json"}

Response(kind, body) == [kind |-> kind, body |-> body]

NoResponse == Response("none", NoBody)

Responses ==
    {Response(k, NoBody) : k \in FailureKinds}
    \cup {Response("json", p) :
            p \in GoodPayloads \cup BadPayloads \cup UnhashablePayloads}

\* The exception fetch_status re-raises for a response, "none" when it
\* returns a StatusData.
FetchExc(r) ==
    CASE r.kind = "transport" -> "ClientConnectionError"
      [] r.kind = "timeout" -> "TimeoutError"
      [] r.kind = "http_error" -> "ClientResponseError"
      [] r.kind = "bad_json" -> "JSONDecodeError"
      [] r.kind = "json" -> FromJsonExc(r.body)

----------------------------------------------------------------------------
\* The run.

Tasks == 1..Len(servers)

\* The server list of length n: an address may occur more than once.
ServerList(n) ==
    [i \in 1..n |-> IF i % 2 = 1 THEN "server-0001" ELSE "server-0002"]

\* The values of MAX_CONCURRENCY explored.
Limits == {1, 2}

NoExisting == <<0, 0>>

\* The outcome of from_json: the exception it raises ("none" when it
\* returns) and the StatusData it returns.
Outcome(exc, status) == [exc |-> exc, status |-> status]

NoStatus ==
    [application |-> JTextMissing, version |-> JTextMissing,
     uptime |-> [num |-> 0, den |-> 1],
     request_count |-> 0, error_count |-> 0, success_count |-> 0]

NoOutcome == Outcome("unparsed", NoStatus)

\* The process before main() has done anything.
InitRun ==
    /\ pcMain = "main"
    /\ servers = <<>>
    /\ limit = 0
    /\ pc = <<>>
    /\ resp = <<>>
    /\ existing = <<>>
    /\ running = 0
    /\ agg_data = <<>>
    /\ fetched = <<>>
    /\ ingested = <<>>
    /\ warned = <<>>
    /\ errored = <<>>
    /\ results = <<>>
    /\ report = <<>>
    /\ exitCode = -1

Init ==
    /\ InitRun
    /\ payload = NoBody
    /\ parsed = NoOutcome
    /\ file = <<>>

\* main() without a servers_file argument: usage message, sys.exit(1).
MainNoArgument ==
    /\ pcMain = "main"
    /\ pcMain' = "usage"
    /\ exitCode' = 1
    /\ UNCHANGED <<servers, limit, pc, resp, existing, running, agg_data,
                   fetched, ingested, warned, errored, results, report,
                   payload, parsed, file>>

\* A bug: the failure to open the file is swallowed, taken for an empty
\* list, and an empty report is written.
RunUnreadableFileSwallowed ==
    /\ pcMain = "main"
    /\ pcMain' = "crashed"
    /\ report' = <<write(<<>>)>>
    /\ exitCode' = 0
    /\ UNCHANGED <<servers, limit, pc, resp, existing, running, agg_data,
                   fetched, ingested, warned, errored, results,
                   payload, parsed, file>>

\* run(): _read_servers cannot open the file; the exception leaves
\* asyncio.run and ends the process.
RunUnreadableFile ==
    /\ pcMain = "main"
    /\ pcMain' = "crashed"
    /\ exitCode' = 1
    /\ UNCHANGED <<servers, limit, pc, resp, existing, running, agg_data,
                   fetched, ingested, warned, errored, results, report,
                   payload, parsed, file>>

\* run() up to the await of gather: the servers are read, the aggregator
\* and the connector are made, one task per server is handed to gather.
RunStart(n, lim) ==
    /\ pcMain = "main"
    /\ pcMain' = "gather"
    /\ servers' = ServerList(n)
    /\ limit' = lim
    /\ pc' = [i \in 1..n |-> "pending"]
    /\ resp' = [i \in 1..n |-> NoResponse]
    /\ existing' = [i \in 1..n |-> NoExisting]
    /\ agg_data' = <<>>
    /\ fetched' = [i \in 1..n |-> 0]
    /\ ingested' = [i \in 1..n |-> 0]
    /\ warned' = [i \in 1..n |-> 0]
    /\ errored' = [i \in 1..n |-> 0]
    /\ UNCHANGED <<running, results, report, exitCode,
                   payload, parsed, file>>

\* A bug: tasks preempt one another at any step, as threads would.
ScheduledPreemptively(i) == TRUE

\* The event loop runs one task at a time: a task may take a step when no
\* other task is between two of its awaits.
Scheduled(i) == running \in {0, i}

InFlight == {j \in Tasks : pc[j] = "inflight"}

\* A bug: the connector is made without the limit.
ConnAlwaysAvailable == TRUE

\* TCPConnector(limit=...): a connection is handed out while fewer than
\* `limit` are open.  The connector reads limit 0 as "no limit"; with a
\* negative limit its count of available connections is never positive, so
\* every request waits.
ConnAvailable == IF limit = 0 THEN TRUE ELSE Cardinality(InFlight) < limit

\* A bug: an address met earlier in the list is not fetched again, its
\* task ends at once.
StartOncePerAddress(i) ==
    /\ pcMain = "gather"
    /\ pc[i] = "pending"
    /\ \A j \in 1..(i - 1) : pc[j] # "pending"
    /\ Scheduled(i)
    /\ IF \E j \in 1..(i - 1) : servers[j] = servers[i]
       THEN /\ pc' = [pc EXCEPT ![i] = "failed"]
            /\ UNCHANGED fetched
       ELSE /\ fetched' = [fetched EXCEPT ![i] = @ + 1]
            /\ pc' = [pc EXCEPT ![i] =
                         IF ConnAvailable THEN "inflight" ELSE "waiting"]
    /\ UNCHANGED <<pcMain, servers, limit, resp, existing, running, agg_data,
                   ingested, warned, errored, results, report, exitCode,
                   payload, parsed, file>>

\* The first step of a task, in the order gather was given the tasks:
\* fetch_status asks the session for a connection and either gets one or
\* waits in the connector.
Start(i) ==
    /\ pcMain = "gather"
    /\ pc[i] = "pending"
    /\ \A j \in 1..(i - 1) : pc[j] # "pending"
    /\ Scheduled(i)
    /\ fetched' = [fetched EXCEPT ![i] = @ + 1]
    /\ pc' = [pc EXCEPT ![i] = IF ConnAvailable THEN "inflight" ELSE "waiting"]
    /\ UNCHANGED <<pcMain, servers, limit, resp, existing, running, agg_data,
                   ingested, warned, errored, results, report, exitCode,
                   payload, parsed, file>>

\* A waiting request is given a connection that became free.
Connect(i) ==
    /\ pc[i] = "waiting"
    /\ Scheduled(i)
    /\ ConnAvailable
    /\ pc' = [pc EXCEPT ![i] = "inflight"]
    /\ UNCHANGED <<pcMain, servers, limit, resp, existing, running, agg_data,
                   fetched, ingested, warned, errored, results, report,
                   exitCode,
                   payload, parsed, file>>

\* A bug: a failed fetch is logged and tried again.
FailTaskRetry(i, r) ==
    /\ resp' = [resp EXCEPT ![i] = r]
    /\ warned' = [warned EXCEPT ![i] = @ + 1]
    /\ errored' = [errored EXCEPT ![i] = @ + 1]
    /\ pc' = [pc EXCEPT ![i] = IF fetched[i] < 2 THEN "pending" ELSE "failed"]
    /\ UNCHANGED <<pcMain, servers, limit, existing, running, agg_data,
                   fetched, ingested, results, report, exitCode,
                   payload, parsed, file>>

\* A bug: the failure of one task cancels the tasks that have not ended.
FailTaskCancelsSiblings(i, r) ==
    /\ resp' = [resp EXCEPT ![i] = r]
    /\ warned' = [warned EXCEPT ![i] = @ + 1]
    /\ errored' = [j \in Tasks |->
                      IF j = i \/ pc[j] \in {"waiting", "inflight"}
                      THEN errored[j] + 1 ELSE errored[j]]
    /\ pc' = [j \in Tasks |->
                 IF j = i \/ pc[j] \in {"waiting", "inflight"}
                 THEN "failed" ELSE pc[j]]
    /\ UNCHANGED <<pcMain, servers, limit, existing, running, agg_data,
                   fetched, ingested, results, report, exitCode,
                   payload, parsed, file>>

\* The failure path of fetch_status and _fetch_and_aggregate: the warning
\* is printed, the exception is re-raised, caught and printed as an error.
FailTask(i, r) ==
    /\ resp' = [resp EXCEPT ![i] = r]
    /\ warned' = [warned EXCEPT ![i] = @ + 1]
    /\ errored' = [errored EXCEPT ![i] = @ + 1]
    /\ pc' = [pc EXCEPT ![i] = "failed"]
    /\ UNCHANGED <<pcMain, servers, limit, existing, running, agg_data,
                   fetched, ingested, results, report, exitCode,
                   payload, parsed, file>>

\* The timeout of a request ends while it still waits for a connection.
WaitTimeout(i) ==
    /\ pc[i] = "waiting"
    /\ Scheduled(i)
    /\ FailTask(i, Response("timeout", NoBody))

\* The request of task i ends with a failure: transport error, timeout,
\* error status, undecodable body, or a payload from_json refuses.
FetchFails(i, r) ==
    /\ pc[i] = "inflight"
    /\ Scheduled(i)
    /\ FetchExc(r) # "none"
    /\ FailTask(i, r)

\* fetch_status returns a StatusData; the task goes on into add_status
\* without giving up the loop.
FetchReturns(i, r) ==
    /\ pc[i] = "inflight"
    /\ Scheduled(i)
    /\ FetchExc(r) = "none"
    /\ resp' = [resp EXCEPT ![i] = r]
    /\ pc' = [pc EXCEPT ![i] = "add_read"]
    /\ running' = i
    /\ UNCHANGED <<pcMain, servers, limit, existing, agg_data, fetched,
                   ingested, warned, errored, results, report, exitCode,
                   payload, parsed, file>>

\* The StatusData task i holds after fetch_status returned.
StatusOf(i) == from_json(resp[i].body)

\* add_status, lines 33-34: the key is made and the bucket is read.
AddRead(i) ==
    /\ pc[i] = "add_read"
    /\ Scheduled(i)
    /\ Hashable(KeyOf(StatusOf(i)))
    /\ existing' = [existing EXCEPT ![i] = add_status_read(agg_data, StatusOf(i))]
    /\ pc' = [pc EXCEPT ![i] = "add_write"]
    /\ UNCHANGED <<pcMain, servers, limit, resp, running, agg_data, fetched,
                   ingested, warned, errored, results, report, exitCode,
                   payload, parsed, file>>

\* add_status raises on an unhashable key; _fetch_and_aggregate catches
\* the exception and prints the error.
AddRaises(i) ==
    /\ pc[i] = "add_read"
    /\ Scheduled(i)
    /\ ~Hashable(KeyOf(StatusOf(i)))
    /\ errored' = [errored EXCEPT ![i] = @ + 1]
    /\ pc' = [pc EXCEPT ![i] = "failed"]
    /\ running' = 0
    /\ UNCHANGED <<pcMain, servers, limit, resp, existing, agg_data, fetched,
                   ingested, warned, results, report, exitCode,
                   payload, parsed, file>>

\* add_status, lines 35-37: the sums are written back; the task ends.
AddWrite(i) ==
    /\ pc[i] = "add_write"
    /\ Scheduled(i)
    /\ agg_data' = add_status_write(agg_data, StatusOf(i), existing[i])
    /\ ingested' = [ingested EXCEPT ![i] = @ + 1]
    /\ existing' = [existing EXCEPT ![i] = NoExisting]
    /\ pc' = [pc EXCEPT ![i] = "done"]
    /\ running' = 0
    /\ UNCHANGED <<pcMain, servers, limit, resp, fetched, warned, errored,
                   results, report, exitCode,
                   payload, parsed, file>>

Terminal == {"done", "failed"}

\* A bug: run() goes on as soon as one task has ended.
GatherFirstCompleted == Tasks = {} \/ \E i \in Tasks : pc[i] \in Terminal

\* A bug: run() goes on only when every task has ingested its record.
GatherAllSucceeded == \A i \in Tasks : pc[i] = "done"

\* await asyncio.gather(*tasks, return_exceptions=True): every task ended.
GatherDone == \A i \in Tasks : pc[i] \in Terminal

\* run() after gather: results = aggregator.get_results().
Snapshot ==
    /\ pcMain = "gather"
    /\ running = 0
    /\ GatherDone
    /\ results' = get_results(agg_data)
    /\ pcMain' = "snapshot"
    /\ UNCHANGED <<servers, limit, pc, resp, existing, running, agg_data,
                   fetched, ingested, warned, errored, report, exitCode,
                   payload, parsed, file>>

\* A bug: a run that aggregated nothing is reported as a failure, with no
\* report and exit code 1.
WriteReportUnlessEmpty ==
    /\ pcMain = "snapshot"
    /\ report' = IF results = <<>> THEN report
                  ELSE <<write(results)>>
    /\ pcMain' = "exit"
    /\ exitCode' = IF results = <<>> THEN 1 ELSE 0
    /\ UNCHANGED <<servers, limit, pc, resp, existing, running, agg_data,
                   fetched, ingested, warned, errored, results,
                   payload, parsed, file>>

\* run() to its end: writer.write(results); main() returns.
WriteReport ==
    /\ pcMain = "snapshot"
    /\ report' = <<write(results)>>
    /\ pcMain' = "exit"
    /\ exitCode' = 0
    /\ UNCHANGED <<servers, limit, pc, resp, existing, running, agg_data,
                   fetched, ingested, warned, errored, results,
                   payload, parsed, file>>

Next ==
    \/ MainNoArgument
    \/ RunUnreadableFile
    \/ \E n \in 0..MaxServers, lim \in Limits : RunStart(n, lim)
    \/ \E i \in Tasks : Start(i)
    \/ \E i \in Tasks : Connect(i)
    \/ \E i \in Tasks : WaitTimeout(i)
    \/ \E i \in Tasks, r \in Responses : FetchFails(i, r)
    \/ \E i \in Tasks, r \in Responses : FetchReturns(i, r)
    \/ \E i \in Tasks : AddRead(i)
    \/ \E i \in Tasks : AddRaises(i)
    \/ \E i \in Tasks : AddWrite(i)
    \/ Snapshot
    \/ WriteReport

Spec == Init /\ [][Next]_vars

----------------------------------------------------------------------------
\* The run over servers that report any integer counts: from_json takes
\* what int() takes, so a count may be negative and Success_Count may
\* exceed Request_Count.

\* <<Success_Count, Request_Count>> of a payload.
SignedCounts == {<<0, 0>>, <<1, 2>>, <<2, 1>>, <<-1, 1>>}

SignedPairs == {<<"App1", "1.0">>, <<"App2", "1.0">>}

SignedPayloads ==
    {Payload("object", JText(p[1]), JText(p[2]), JNum(1),
             JStr(CountStr(c[2])), JNum(c[2] - c[1]), JNum(c[1])) :
        p \in SignedPairs, c \in SignedCounts}

SignedResponses ==
    {Response("timeout", NoBody)}
    \cup {Response("json", p) : p \in SignedPayloads \cup UnhashablePayloads}

NextSigned ==
    \/ \E n \in 0..MaxServers : RunStart(n, 2)
    \/ \E i \in Tasks : Start(i)
    \/ \E i \in Tasks : Connect(i)
    \/ \E i \in Tasks : WaitTimeout(i)
    \/ \E i \in Tasks, r \in SignedResponses : FetchFails(i, r)
    \/ \E i \in Tasks, r \in SignedResponses : FetchReturns(i, r)
    \/ \E i \in Tasks : AddRead(i)
    \/ \E i \in Tasks : AddRaises(i)
    \/ \E i \in Tasks : AddWrite(i)
    \/ Snapshot
    \/ WriteReport

SpecSigned == Init /\ [][NextSigned]_vars

----------------------------------------------------------------------------
\* The run under any MAX_CONCURRENCY the environment can hold: Config takes
\* int(os.getenv("MAX_CONCURRENCY", "50")) as it comes and run() hands it to
\* TCPConnector.

ConfigLimits == {-1, 0, 1}

NextConfig ==
    \/ \E n \in 0..MaxServers, lim \in ConfigLimits : RunStart(n, lim)
    \/ \E i \in Tasks : Start(i)
    \/ \E i \in Tasks : Connect(i)
    \/ \E i \in Tasks : WaitTimeout(i)
    \/ \E i \in Tasks, r \in Responses : FetchFails(i, r)
    \/ \E i \in Tasks, r \in Responses : FetchReturns(i, r)
    \/ \E i \in Tasks : AddRead(i)
    \/ \E i \in Tasks : AddRaises(i)
    \/ \E i \in Tasks : AddWrite(i)
    \/ Snapshot
    \/ WriteReport

SpecConfig == Init /\ [][NextConfig]_vars

----------------------------------------------------------------------------
\* The run under the scheduling of the event loop: a task that can take a
\* step is run, a request ends within its timeout (with a body, a failure
\* or the timeout itself), and run() goes on when gather returns.

LiveResponses ==
    {Response("timeout", NoBody),
     Response("http_error", NoBody),
     Response("json", Payload("object", JText("App1"), JText("1.0"),
                              JNum(1), JNum(2), JNum(1), JNum(1)))}
    \cup {Response("json", p) : p \in UnhashablePayloads}

\* The steps of task i, for the fairness of the loop towards it.
TaskStep(i) ==
    /\ i \in Tasks
    /\ \/ Start(i)
       \/ Connect(i)
       \/ WaitTimeout(i)
       \/ \E r \in LiveResponses : FetchFails(i, r)
       \/ \E r \in LiveResponses : FetchReturns(i, r)
       \/ AddRead(i)
       \/ AddRaises(i)
       \/ AddWrite(i)

NextLive ==
    \/ \E n \in 0..MaxServers : RunStart(n, 1)
    \/ \E i \in Tasks : Start(i)
    \/ \E i \in Tasks : Connect(i)
    \/ \E i \in Tasks : WaitTimeout(i)
    \/ \E i \in Tasks, r \in LiveResponses : FetchFails(i, r)
    \/ \E i \in Tasks, r \in LiveResponses : FetchReturns(i, r)
    \/ \E i \in Tasks : AddRead(i)
    \/ \E i \in Tasks : AddRaises(i)
    \/ \E i \in Tasks : AddWrite(i)
    \/ Snapshot
    \/ WriteReport

Fairness ==
    /\ \A i \in 1..MaxServers : WF_vars(TaskStep(i))
    /\ WF_vars(Snapshot)
    /\ WF_vars(WriteReport)

SpecLive == Init /\ [][NextLive]_vars /\ Fairness

----------------------------------------------------------------------------
\* Vocabulary of the properties.

Done == {i \in Tasks : pc[i] = "done"}

Failed == {i \in Tasks : pc[i] = "failed"}

RECURSIVE SumTo(_, _)
\* f[1] + ... + f[n]
SumTo(f, n) == IF n = 0 THEN 0 ELSE f[n] + SumTo(f, n - 1)

\* The record the payload of task i carries, field by field.
RecordKey(i) == <<resp[i].body.Application, resp[i].body.Version>>

\* The sums of success_count and request_count over the tasks of S whose
\* record has the pair `key`.
SuccessSum(S, key) ==
    SumTo([i \in Tasks |->
              IF i \in S /\ RecordKey(i) = key
              THEN StatusOf(i).success_count ELSE 0], Len(servers))

RequestSum(S, key) ==
    SumTo([i \in Tasks |->
              IF i \in S /\ RecordKey(i) = key
              THEN StatusOf(i).request_count ELSE 0], Len(servers))

\* A dict or a result list read as a set of buckets, its order forgotten.
Buckets(a) == {a[k] : k \in 1..Len(a)}

\* C1: in every state the aggregator holds exactly one bucket for each
\* (application, version) pair of the records ingested so far, and the
\* bucket's total_success and total_requests are the sums of success_count
\* and request_count over the ingested records with that pair, whatever
\* the order in which the records were ingested.
C1_TotalsAreSums ==
    Buckets(agg_data) =
        {[key |-> RecordKey(i),
          val |-> <<SuccessSum(Done, RecordKey(i)),
                    RequestSum(Done, RecordKey(i))>>] : i \in Done}

\* Two records with the same pair and a third one have been ingested.
C1_Witness ==
    /\ Cardinality(Done) = 3
    /\ \E i, j \in Done :
          /\ i # j
          /\ RecordKey(i) = RecordKey(j)
          /\ StatusOf(i).request_count = 2
          /\ StatusOf(j).request_count = 2
          /\ [key |-> RecordKey(i), val |-> <<2, 4>>] \in Buckets(agg_data)

RECURSIVE Sequentially(_)
\* The aggregator after add_status was called, one call after the other,
\* for the tasks 1..n that have ingested.
Sequentially(n) ==
    IF n = 0 THEN <<>>
    ELSE IF n \in Done THEN add_status(Sequentially(n - 1), StatusOf(n))
         ELSE Sequentially(n - 1)

C3_OneOutcomePerServer ==
    /\ \A i \in Tasks :
          /\ fetched[i] <= 1
          /\ (pc[i] # "pending") = (fetched[i] = 1)
          /\ pc[i] = "done" => ingested[i] = 1 /\ errored[i] = 0
          /\ pc[i] = "failed" => ingested[i] = 0 /\ errored[i] = 1
          /\ pc[i] \notin Terminal => ingested[i] = 0 /\ errored[i] = 0
    /\ pcMain \in {"snapshot", "exit"} => \A i \in Tasks : pc[i] \in Terminal

\* The run is over; one server was ingested and another one failed.
C3_Witness ==
    /\ pcMain = "exit"
    /\ Done # {}
    /\ Failed # {}

\* The response of task i is one from which a record is made and ingested:
\* a JSON object with the six fields present and coercible and a pair
\* (Application, Version) of strings.
GoodResponse(i) == resp[i].kind = "json" /\ resp[i].body \in GoodPayloads

\* The response of task i is a failure of its own request.
OwnFailure(i) == resp[i].kind # "none" /\ ~GoodResponse(i)

\* C4: a task fails only on the failure of its own request, never because
\* another one failed; when the run is over every server that answered a
\* well-formed payload has its record ingested, whatever happened to the
\* other servers, and the exit code is 0.
C4_FailuresAreIsolated ==
    /\ \A i \in Tasks : pc[i] = "failed" => OwnFailure(i)
    /\ pcMain = "exit" =>
          /\ exitCode = 0
          /\ \A i \in Tasks : GoodResponse(i) => ingested[i] = 1

\* The run is over with exit code 0: one request met a transport error,
\* the requests of the two other servers were answered and ingested.
C4_Witness ==
    /\ pcMain = "exit"
    /\ exitCode = 0
    /\ \E i \in Failed : resp[i].kind = "transport"
    /\ Cardinality(Done) = 2

\* The tasks that have started and have not ended.
Admitted == {i \in Tasks : pc[i] \notin {"pending"} \cup Terminal}

\* C5, as claimed: the number of tasks that have started and not ended is
\* at most MAX_CONCURRENCY.
C5_AdmittedWithinLimit == pcMain = "gather" => Cardinality(Admitted) <= limit

\* C5, amended: the number of requests that hold a connection is at most
\* MAX_CONCURRENCY; the tasks are all started and the surplus waits in the
\* connector.
C5_ConnectionsWithinLimit == pcMain = "gather" => Cardinality(InFlight) <= limit

\* With a limit of 1 every task has started: one request holds the
\* connection and the two others wait for it.
C5_Witness ==
    /\ limit = 1
    /\ Cardinality(InFlight) = 1
    /\ Cardinality({i \in Tasks : pc[i] = "waiting"}) = 2

\* C6: once get_results has been called every task has ended, so
\* add_status is not called any more: the aggregator stays what the
\* snapshot was taken from, and the report is written from that snapshot.
C6_SnapshotAfterAllTasks ==
    pcMain \in {"snapshot", "exit"} =>
        /\ \A i \in Tasks : pc[i] \in Terminal
        /\ running = 0
        /\ results = get_results(agg_data)
        /\ pcMain = "exit" => report = <<write(results)>>

\* The snapshot of a run of three servers has been taken: some were
\* ingested, one failed.
C6_Witness ==
    /\ pcMain = "snapshot"
    /\ Len(servers) = 3
    /\ Cardinality(Done) = 2
    /\ Cardinality(Failed) = 1
    /\ Len(results) >= 1

\* The servers whose request was answered with a well-formed payload.
Succeeded == {i \in Tasks : GoodResponse(i)}

\* A result list read as a set of (application, version, totals).
Totals(res) ==
    {[application |-> res[k].application, version |-> res[k].version,
      total_requests |-> res[k].total_requests,
      total_success |-> res[k].total_success] : k \in 1..Len(res)}

\* C7: the result set of a run is decided by the servers that succeeded
\* and their records alone: for each pair it holds one entry with the sums
\* over the succeeded servers reporting that pair, and nothing else, in
\* whatever order the requests were answered.
C7_ResultsFromSucceededOnly ==
    pcMain \in {"snapshot", "exit"} =>
        /\ Totals(results) =
              {[application |-> RecordKey(i)[1], version |-> RecordKey(i)[2],
                total_requests |-> RequestSum(Succeeded, RecordKey(i)),
                total_success |-> SuccessSum(Succeeded, RecordKey(i))] :
                  i \in Succeeded}
        /\ Len(results) = Cardinality(Totals(results))

\* The run is over: two servers reported the same pair and were merged
\* into one entry, the third one failed.
C7_Witness ==
    /\ pcMain = "exit"
    /\ Len(servers) = 3
    /\ Cardinality(Succeeded) = 2
    /\ Len(results) = 1
    /\ results[1].total_requests = 4
    /\ results[1].total_success = 2

InvalidNumber(v) ==
    \/ v.t \in {"missing", "null", "list"}
    \/ v.t = "str" /\ ~FloatStrOk(v.s)

InvalidCount(v) ==
    \/ v.t \in {"missing", "null", "list"}
    \/ v.t = "str" /\ ~IntStrOk(v.s)

InvalidPayload(data) ==
    \/ data.shape # "object"
    \/ data.Application.t # "str"
    \/ data.Version.t # "str"
    \/ InvalidNumber(data.Uptime)
    \/ InvalidCount(data.Request_Count)
    \/ InvalidCount(data.Error_Count)
    \/ InvalidCount(data.Success_Count)

\* The request of task i has met a failure.
FailureResponse(i) ==
    \/ resp[i].kind \in FailureKinds
    \/ resp[i].kind = "json" /\ InvalidPayload(resp[i].body)

\* The tasks whose record went into the aggregator.
Accepted == {i \in Tasks : ingested[i] = 1 /\ ~FailureResponse(i)}

IngestedPairs == {RecordKey(i) : i \in Done}

\* One bucket for each pair ingested, and after the snapshot one entry
\* for each.
OneBucketPerPair ==
    /\ \A k, l \in 1..Len(agg_data) :
          agg_data[k].key = agg_data[l].key => k = l
    /\ {agg_data[k].key : k \in 1..Len(agg_data)} = IngestedPairs
    /\ pcMain \in {"snapshot", "exit"} =>
          /\ Len(results) = Cardinality(IngestedPairs)
          /\ {<<results[k].application, results[k].version>> :
                 k \in 1..Len(results)} = IngestedPairs

\* A step that completes add_status for one pair leaves the bucket of
\* every other pair as it was.
OtherBucketsUntouched ==
    \A i \in Tasks :
        pc[i] = "add_write" /\ pc'[i] = "done" =>
            \A k \in 1..Len(agg_data) :
                agg_data[k].key # RecordKey(i) =>
                    /\ k <= Len(agg_data')
                    /\ agg_data'[k] = agg_data[k]

\* C10: records are grouped by the exact pair (application, version):
\* after every step there is one bucket, and in the snapshot one entry,
\* for each distinct pair ingested, and an add_status for one pair leaves
\* the buckets of the other pairs unchanged, also when only the version
\* differs.
C10_GroupedByExactPair == [][OneBucketPerPair' /\ OtherBucketsUntouched]_vars

\* Three servers reported (App1, 1.0), (App1, 2.0) and (App2, 1.0) and the
\* snapshot holds three entries.
C10_Witness ==
    /\ pcMain = "snapshot"
    /\ Len(results) = 3
    /\ IngestedPairs = {<<JText("App1"), JText("1.0")>>,
                        <<JText("App1"), JText("2.0")>>,
                        <<JText("App2"), JText("1.0")>>}

----------------------------------------------------------------------------
\* StatusData.from_json on its own, over the decoded bodies a server can
\* send: each of the four numeric fields is a JSON number, a string, null,
\* an array or absent.

NumberValues ==
    {JNum(0), JNum(2), JNum(-1), JFloat(25),
     JStr(<<"2">>), JStr(<<"-", "1">>), JStr(<<"2", ".", "5">>),
     JStr(<<"a">>), JStr(<<>>),
     JNull, [t |-> "list", n |-> 0, s |-> <<>>], JMissing}

TextValues == {JText("App1"), JTextArr, JTextMissing}

ParsePayloads ==
    {Payload("object", app, JText("1.0"), up, req, err, succ) :
        app \in TextValues, up \in NumberValues, req \in NumberValues,
        err \in NumberValues, succ \in NumberValues}
    \cup {Payload("object", JText("App1"), JTextMissing,
                  JNum(2), JNum(2), JNum(0), JNum(2)),
          Payload("array", JTextMissing, JTextMissing, JMissing,
                  JMissing, JMissing, JMissing)}

InitParse ==
    /\ InitRun
    /\ payload \in ParsePayloads
    /\ parsed = NoOutcome
    /\ file = <<>>

\* from_json(data) raises.
FromJsonRaises ==
    /\ parsed = NoOutcome
    /\ FromJsonExc(payload) # "none"
    /\ parsed' = Outcome(FromJsonExc(payload), NoStatus)
    /\ UNCHANGED <<pcMain, servers, limit, pc, resp, existing, running,
                   agg_data, fetched, ingested, warned, errored, results,
                   report, exitCode, payload, file>>

\* from_json(data) returns a StatusData.
FromJsonReturns ==
    /\ parsed = NoOutcome
    /\ FromJsonExc(payload) = "none"
    /\ parsed' = Outcome("none", from_json(payload))
    /\ UNCHANGED <<pcMain, servers, limit, pc, resp, existing, running,
                   agg_data, fetched, ingested, warned, errored, results,
                   report, exitCode, payload, file>>

NextParse == FromJsonRaises \/ FromJsonReturns

SpecParse == InitParse /\ [][NextParse]_vars

----------------------------------------------------------------------------
\* run() called again on the same StatusTool, in the same process, after a
\* run has ended: the caller goes on instead of leaving main().

\* A bug: the aggregator is kept by the StatusTool (or is one per process)
\* and the next run goes on with it.
RunAgainSharedAggregator(n, lim) ==
    /\ pcMain = "exit"
    /\ pcMain' = "gather"
    /\ servers' = ServerList(n)
    /\ limit' = lim
    /\ pc' = [i \in 1..n |-> "pending"]
    /\ resp' = [i \in 1..n |-> NoResponse]
    /\ existing' = [i \in 1..n |-> NoExisting]
    /\ fetched' = [i \in 1..n |-> 0]
    /\ ingested' = [i \in 1..n |-> 0]
    /\ warned' = [i \in 1..n |-> 0]
    /\ errored' = [i \in 1..n |-> 0]
    /\ results' = <<>>
    /\ exitCode' = -1
    /\ UNCHANGED <<running, agg_data, report, payload, parsed, file>>

\* run() once more, up to the await of gather: the servers are read again,
\* aggregator = ReportAggregator() is a new, empty one, the report of the
\* run before is still in the output file.
RunAgain(n, lim) ==
    /\ pcMain = "exit"
    /\ pcMain' = "gather"
    /\ servers' = ServerList(n)
    /\ limit' = lim
    /\ pc' = [i \in 1..n |-> "pending"]
    /\ resp' = [i \in 1..n |-> NoResponse]
    /\ existing' = [i \in 1..n |-> NoExisting]
    /\ agg_data' = <<>>
    /\ fetched' = [i \in 1..n |-> 0]
    /\ ingested' = [i \in 1..n |-> 0]
    /\ warned' = [i \in 1..n |-> 0]
    /\ errored' = [i \in 1..n |-> 0]
    /\ results' = <<>>
    /\ exitCode' = -1
    /\ UNCHANGED <<running, report, payload, parsed, file>>

NextRerun ==
    \/ \E n \in 0..MaxServers : RunStart(n, 2)
    \/ \E i \in Tasks : Start(i)
    \/ \E i \in Tasks : Connect(i)
    \/ \E i \in Tasks : WaitTimeout(i)
    \/ \E i \in Tasks, r \in LiveResponses : FetchFails(i, r)
    \/ \E i \in Tasks, r \in LiveResponses : FetchReturns(i, r)
    \/ \E i \in Tasks : AddRead(i)
    \/ \E i \in Tasks : AddRaises(i)
    \/ \E i \in Tasks : AddWrite(i)
    \/ Snapshot
    \/ WriteReport
    \/ \E n \in 0..MaxServers : RunAgain(n, 2)

SpecRerun == Init /\ [][NextRerun]_vars

----------------------------------------------------------------------------
\* ReportAggregator on its own: a caller that makes add_status and
\* get_results calls in any order.  resp keeps the payloads of the records
\* handed to add_status, in call order; pcMain tells the last call.

\* add_status(status)
CallAddStatus(p) ==
    /\ pcMain \in {"main", "added", "results"}
    /\ Len(resp) < MaxServers
    /\ agg_data' = add_status(agg_data, from_json(p))
    /\ resp' = Append(resp, Response("json", p))
    /\ pcMain' = "added"
    /\ UNCHANGED <<servers, limit, pc, existing, running, fetched, ingested,
                   warned, errored, results, report, exitCode,
                   payload, parsed, file>>

\* A bug: the rate is stored back, the bucket is left as the reduced
\* fraction.
CallGetResultsStoring ==
    /\ pcMain \in {"main", "added", "results"}
    /\ results' = get_results(agg_data)
    /\ agg_data' = [k \in 1..Len(agg_data) |->
                      [key |-> agg_data[k].key,
                       val |-> <<ResultOf(agg_data[k]).success_rate.num,
                                 ResultOf(agg_data[k]).success_rate.den>>]]
    /\ pcMain' = "results"
    /\ UNCHANGED <<servers, limit, pc, resp, existing, running, fetched,
                   ingested, warned, errored, report, exitCode,
                   payload, parsed, file>>

\* get_results()
CallGetResults ==
    /\ pcMain \in {"main", "added", "results"}
    /\ results' = get_results(agg_data)
    /\ pcMain' = "results"
    /\ UNCHANGED <<servers, limit, pc, resp, existing, running, agg_data,
                   fetched, ingested, warned, errored, report, exitCode,
                   payload, parsed, file>>

NextAggregator ==
    \/ \E p \in GoodPayloads : CallAddStatus(p)
    \/ CallGetResults

SpecAggregator == Init /\ [][NextAggregator]_vars

----------------------------------------------------------------------------
\* StatusTool._read_servers on its own.  A file is the sequence of the lines
\* `for line in f` yields, a line the sequence of its characters, its
\* newline included.

Whitespace == {" ", "\t", "\n"}

RECURSIVE lstrip(_)
lstrip(line) ==
    IF Len(line) > 0 /\ line[1] \in Whitespace THEN lstrip(Tail(line))
    ELSE line

RECURSIVE rstrip(_)
rstrip(line) ==
    IF Len(line) > 0 /\ line[Len(line)] \in Whitespace
    THEN rstrip(SubSeq(line, 1, Len(line) - 1))
    ELSE line

\* line.strip()
strip(line) == rstrip(lstrip(line))

\* line.startswith("#")
startswith_hash(line) == Len(line) > 0 /\ line[1] = "#"

RECURSIVE read_servers_unstripped(_)
\* A bug: the test is made on the stripped line, the line is appended as
\* it was read.
read_servers_unstripped(f) ==
    IF Len(f) = 0 THEN <<>>
    ELSE LET line == strip(f[Len(f)])
             before == read_servers_unstripped(SubSeq(f, 1, Len(f) - 1))
         IN IF Len(line) = 0 \/ startswith_hash(line) THEN before
            ELSE Append(before, f[Len(f)])

RECURSIVE read_servers(_)
\* _read_servers: the loop over the lines of the file.
read_servers(f) ==
    IF Len(f) = 0 THEN <<>>
    ELSE LET line == strip(f[Len(f)])
             before == read_servers(SubSeq(f, 1, Len(f) - 1))
         IN IF Len(line) = 0 \/ startswith_hash(line) THEN before
            ELSE Append(before, line)

\* The lines a servers file is made of: addresses with and without blanks
\* around them, comments, indented comments, blank lines, a last line
\* without its newline, an address with a '#' inside.
FileLines ==
    {<<"a", "\n">>, <<" ", "b", "\t", "\n">>, <<"b">>, <<"a", "#", "\n">>,
     <<"#", "a", "\n">>, <<" ", "#", "a", "\n">>, <<"\n">>, <<" ", "\n">>}

RECURSIVE FilesOf(_)
\* The files of exactly n lines.
FilesOf(n) ==
    IF n = 0 THEN {<<>>}
    ELSE {Append(f, l) : f \in FilesOf(n - 1), l \in FileLines}

Files == UNION {FilesOf(n) : n \in 0..MaxServers}

InitRead ==
    /\ InitRun
    /\ payload = NoBody
    /\ parsed = NoOutcome
    /\ file \in Files

\* run(): servers = self._read_servers(self.servers_file)
ReadServers ==
    /\ pcMain = "main"
    /\ pcMain' = "read"
    /\ servers' = read_servers(file)
    /\ UNCHANGED <<limit, pc, resp, existing, running, agg_data, fetched,
                   ingested, warned, errored, results, report, exitCode,
                   payload, parsed, file>>

NextRead == ReadServers

SpecRead == InitRead /\ [][NextRead]_vars

----------------------------------------------------------------------------
\* The claims about the range of the totals and of the rate.

\* The record task i parsed has counts add_status may rely on.
WithinCounts(i) ==
    /\ StatusOf(i).request_count >= 0
    /\ StatusOf(i).error_count >= 0
    /\ StatusOf(i).success_count >= 0
    /\ StatusOf(i).success_count <= StatusOf(i).request_count

RateWithinUnit(r) == r.den > 0 /\ 0 <= r.num /\ r.num <= r.den

\* C11: when every record ingested has non-negative counts and a
\* success_count of at most its request_count, every bucket has
\* 0 <= total_success <= total_requests, and every entry of the snapshot a
\* success_rate within [0, 1] that is 0.0 when total_requests is 0.
C11_RateWithinUnitInterval ==
    (\A i \in Done : WithinCounts(i)) =>
        /\ \A k \in 1..Len(agg_data) :
              /\ 0 <= agg_data[k].val[1]
              /\ agg_data[k].val[1] <= agg_data[k].val[2]
        /\ pcMain \in {"snapshot", "exit"} =>
              \A k \in 1..Len(results) :
                  /\ RateWithinUnit(results[k].success_rate)
                  /\ results[k].total_requests = 0 =>
                        results[k].success_rate = Zero

\* Two records of (1, 2) made a bucket of rate 1/2 and a record of (0, 0)
\* a bucket of rate 0.0.
C11_Witness ==
    /\ pcMain = "snapshot"
    /\ Cardinality(Done) = 3
    /\ \A i \in Done : WithinCounts(i)
    /\ \E k \in 1..Len(results) :
          /\ results[k].total_requests = 4
          /\ results[k].success_rate = [num |-> 1, den |-> 2]
    /\ \E k \in 1..Len(results) :
          /\ results[k].total_requests = 0
          /\ results[k].success_rate = Zero

\* Every bucket of the aggregator is still there after the step, under the
\* same pair, with totals at least as large.
BucketsOnlyGrow ==
    \A k \in 1..Len(agg_data) :
        /\ k <= Len(agg_data')
        /\ agg_data'[k].key = agg_data[k].key
        /\ agg_data'[k].val[1] >= agg_data[k].val[1]
        /\ agg_data'[k].val[2] >= agg_data[k].val[2]

\* C12: during one run the totals of every bucket never decrease: no step
\* of the run, whatever record from_json produced and add_status ingested,
\* lowers, resets or removes a bucket.
C12_TotalsNeverDecrease == [][BucketsOnlyGrow]_vars

----------------------------------------------------------------------------
\* The claims about from_json.

\* from_json has been applied to the payload.
Parsed == parsed # NoOutcome

Returned == Parsed /\ parsed.exc = "none"

\* A numeric field float() cannot coerce, an integer field int() cannot.
UncoercibleNumber(v) ==
    \/ v.t \in {"null", "list"}
    \/ v.t = "str" /\ ~FloatStrOk(v.s)

UncoercibleCount(v) ==
    \/ v.t \in {"null", "list"}
    \/ v.t = "str" /\ ~IntStrOk(v.s)

MissingKey(data) ==
    \E v \in {data.Application, data.Version, data.Uptime,
               data.Request_Count, data.Error_Count, data.Success_Count} :
        v.t = "missing"

Malformed(data) ==
    \/ data.shape # "object"
    \/ MissingKey(data)
    \/ UncoercibleNumber(data.Uptime)
    \/ UncoercibleCount(data.Request_Count)
    \/ UncoercibleCount(data.Error_Count)
    \/ UncoercibleCount(data.Success_Count)

\* C13: from_json reports every malformed payload (a missing key, a field
\* whose coercion fails, null and arrays included, a body that is not an
\* object) by raising ValueError and nothing else; it returns no record.
C13_MalformedRaisesValueError ==
    Parsed /\ Malformed(payload) => parsed.exc = "ValueError"

\* C14: every StatusData from_json returns has request_count, error_count
\* and success_count >= 0: a payload with a negative count is refused.
C14_CountsNonNegative ==
    Returned =>
        /\ parsed.status.request_count >= 0
        /\ parsed.status.error_count >= 0
        /\ parsed.status.success_count >= 0

\* A number, or a string that reads as a decimal numeral: an optional
\* sign, digits, at most one point.
NumericLooking(v) ==
    \/ v.t \in {"num", "float"}
    \/ v.t = "str" /\ FloatStrOk(v.s)

\* An integer, or a string that reads as one: a numeral without a point.
IntegerLooking(v) ==
    \/ v.t = "num"
    \/ v.t = "str" /\ FloatStrOk(v.s) /\ DotCount(v.s) = 0

\* The number a numeric-looking value denotes, as a fraction.
ValueOf(v) ==
    CASE v.t = "num" -> [num |-> v.n, den |-> 1]
      [] v.t = "float" -> [num |-> v.n, den |-> 10]
      [] v.t = "str" -> FloatStrVal(v.s)

SameNumber(x, y) == x.num * y.den = y.num * x.den

SameCount(n, v) == SameNumber([num |-> n, den |-> 1], ValueOf(v))

\* from_json returned a record that carries the payload's six values.
CarriesPayload ==
    /\ Returned
    /\ parsed.status.application = payload.Application
    /\ parsed.status.version = payload.Version
    /\ SameNumber(parsed.status.uptime, ValueOf(payload.Uptime))
    /\ SameCount(parsed.status.request_count, payload.Request_Count)
    /\ SameCount(parsed.status.error_count, payload.Error_Count)
    /\ SameCount(parsed.status.success_count, payload.Success_Count)

HasTexts(data) ==
    /\ data.shape = "object"
    /\ data.Application.t = "str"
    /\ data.Version.t = "str"

\* C18 as stated: for every payload that has the six keys, with Uptime and
\* the three counts given as numbers or numeric-looking strings, from_json
\* returns a record whose application and version are the payload's strings
\* and whose numeric fields equal the payload's numeric values.
C18_NumericFieldsCoerced ==
    (/\ Parsed
     /\ HasTexts(payload)
     /\ NumericLooking(payload.Uptime)
     /\ NumericLooking(payload.Request_Count)
     /\ NumericLooking(payload.Error_Count)
     /\ NumericLooking(payload.Success_Count)) => CarriesPayload

\* C18, amended: the same, for payloads whose three counts are integers or
\* integer-looking strings (Uptime may be any number or decimal numeral).
C18_IntegerCountsCoerced ==
    (/\ Parsed
     /\ HasTexts(payload)
     /\ NumericLooking(payload.Uptime)
     /\ IntegerLooking(payload.Request_Count)
     /\ IntegerLooking(payload.Error_Count)
     /\ IntegerLooking(payload.Success_Count)) => CarriesPayload

\* {"Uptime": "2.5", "Request_Count": "2", "Error_Count": 0,
\* "Success_Count": 2} became a record of uptime 2.5 and counts 2, 0, 2.
C18_Witness ==
    /\ Returned
    /\ payload.Uptime = JStr(<<"2", ".", "5">>)
    /\ payload.Request_Count = JStr(<<"2">>)
    /\ payload.Error_Count = JNum(0)
    /\ payload.Success_Count = JNum(2)
    /\ parsed.status.uptime = [num |-> 25, den |-> 10]
    /\ parsed.status.request_count = 2
    /\ parsed.status.error_count = 0
    /\ parsed.status.success_count = 2

----------------------------------------------------------------------------
\* The claims about how the process ends.

\* C15: a run in which no server is reached successfully, because the list
\* is empty or because every fetch fails, ends normally: get_results
\* returns the empty sequence, the report written is the empty array and
\* the exit code is 0.
C15_NothingReachedEmptyReport ==
    pcMain = "exit" /\ Done = {} =>
        /\ results = <<>>
        /\ report = << <<>> >>
        /\ exitCode = 0

\* Three servers, each failed in its own way, and the run has ended.
C15_Witness ==
    /\ pcMain = "exit"
    /\ Len(servers) = 3
    /\ Failed = Tasks
    /\ resp[1].kind = "timeout"
    /\ resp[2].kind = "http_error"
    /\ resp[3].kind = "json"
    /\ report = << <<>> >>

\* C16: a fatal configuration error (no command-line argument, a servers
\* file that cannot be read) ends the process before any network activity:
\* no task is made, no fetch issued, no report written, exit code 1.
C16_ConfigErrorAbortsEarly ==
    pcMain \in {"usage", "crashed"} =>
        /\ exitCode = 1
        /\ servers = <<>>
        /\ pc = <<>>
        /\ fetched = <<>>
        /\ resp = <<>>
        /\ results = <<>>
        /\ report = <<>>

\* The servers file could not be opened and the process has ended.
C16_Witness ==
    /\ pcMain = "crashed"
    /\ exitCode = 1
    /\ report = <<>>

\* C17: a MAX_CONCURRENCY of 0 or less is invalid: the run refuses it before
\* any fetch or goes on with a limit of 1; no fetch is ever issued under a
\* limit that is not positive, and never more connections are open than
\* the limit.
C17_LimitAtLeastOne ==
    (\E i \in Tasks : fetched[i] > 0) =>
        /\ limit >= 1
        /\ Cardinality(InFlight) <= limit

\* The line without the whitespace at its two ends.
Trimmed(line) ==
    LET inked == {k \in 1..Len(line) : line[k] \notin Whitespace}
    IN IF inked = {} THEN <<>>
       ELSE SubSeq(line, CHOOSE k \in inked : \A j \in inked : k <= j,
                         CHOOSE k \in inked : \A j \in inked : k >= j)

\* C19: _read_servers returns, in file order, exactly the whitespace-trimmed
\* lines of the file that are neither blank nor begin with '#'; an empty
\* file gives the empty list.
C19_TrimmedUncommentedLines ==
    pcMain = "read" =>
        servers = SelectSeq([k \in 1..Len(file) |-> Trimmed(file[k])],
                            LAMBDA l : l # <<>> /\ l[1] # "#")

\* An indented comment, an address between blanks and an address on a last
\* line without newline gave the two addresses, in file order.
C19_Witness ==
    /\ pcMain = "read"
    /\ file = <<<<" ", "#", "a", "\n">>, <<" ", "b", "\t", "\n">>, <<"a", "\n">>>>
    /\ servers = <<<<"b">>, <<"a">>>>

\* C20: get_results skips every entry whose total_requests == 0, as its
\* docstring says.
C20_ZeroRequestEntriesSkipped ==
    pcMain \in {"snapshot", "exit"} =>
        \A k \in 1..Len(results) : results[k].total_requests # 0

----------------------------------------------------------------------------
\* The claims about the report and about repeated calls.

\* The fields get_results gives an entry.
ResultFields ==
    {"application", "version", "total_requests", "total_success",
     "success_rate"}

\* C21: the array ReportWriter.write dumps has one element for each result
\* record, in the order of the results; each element carries the fields of
\* its record unchanged and links.self = /apps/{application}/{version}/info
\* made of the application and version of that same record.
C21_OneElementPerRecord ==
    pcMain = "exit" =>
        /\ Len(report) = 1
        /\ Len(report[1]) = Len(results)
        /\ \A k \in 1..Len(results) :
              /\ DOMAIN report[1][k] = ResultFields \cup {"links"}
              /\ \A f \in ResultFields : report[1][k][f] = results[k][f]
              /\ DOMAIN report[1][k].links = {"self"}
              /\ report[1][k].links.self =
                    <<"/apps/", results[k].application.name, "/",
                      results[k].version.name, "/info">>

\* A report of three elements whose links differ.
C21_Witness ==
    /\ pcMain = "exit"
    /\ Len(results) = 3
    /\ Len(report[1]) = 3
    /\ report[1][1].links.self # report[1][2].links.self
    /\ report[1][2].links.self # report[1][3].links.self
    /\ report[1][3].total_requests = results[3].total_requests

\* A request that timed out left its task failed, with nothing ingested.
TimedOutSkipped ==
    \A i \in Tasks :
        resp[i].kind = "timeout" => pc[i] = "failed" /\ ingested[i] = 0

\* C22: under fairness, every request ending within its timeout, every
\* task of a run reaches a terminal outcome and the run takes the snapshot
\* and writes the report; a timed-out server is a failed server like any
\* other and is skipped.
C22_RunEnds ==
    /\ \A i \in 1..MaxServers :
          (i \in Tasks) ~> (i \in Tasks /\ pc[i] \in Terminal)
    /\ (pcMain = "gather") ~> (pcMain = "exit" /\ Len(report) = 1)
    /\ [](TimedOutSkipped)

\* The run has ended: one request timed out while it held a connection,
\* one while it waited for one, the third server's record is the report.
C22_Witness ==
    /\ pcMain = "exit"
    /\ Len(servers) = 3
    /\ resp[1].kind = "timeout"
    /\ resp[2].kind = "timeout"
    /\ fetched[2] = 1
    /\ pc[3] = "done"
    /\ Len(report[1]) = 1

RECURSIVE Replayed(_)
\* The buckets the add_status calls for the payloads of `calls`, in that
\* order, leave when nothing else is ever called.
Replayed(calls) ==
    IF Len(calls) = 0 THEN <<>>
    ELSE add_status(Replayed(SubSeq(calls, 1, Len(calls) - 1)),
                    from_json(calls[Len(calls)].body))

\* C23: get_results is read-only: it leaves every bucket as it was (the
\* rate is not stored back), a second call with no add_status in between
\* returns the same results, and the add_status calls accumulate as if
\* get_results had never been called.
C23_GetResultsReadOnly ==
    [][/\ pcMain' = "results" => agg_data' = agg_data
       /\ pcMain = "results" /\ pcMain' = "results" => results' = results
       /\ agg_data' = Replayed(resp')]_vars

\* Results were taken when the bucket stood at (1, 2); two more records
\* were added since and the bucket stands at (3, 6).
C23_Witness ==
    /\ pcMain = "added"
    /\ Len(resp) = 3
    /\ Len(results) = 1
    /\ results[1].total_requests = 2
    /\ Len(agg_data) = 1
    /\ agg_data[1].val = <<3, 6>>

\* C24: every call of run() starts from a new, empty aggregator: the
\* buckets and the results of a run are the sums over the records this run
\* ingested, with nothing of a run before, so the same outcomes give the
\* same totals in every run.
C24_FreshAggregatorEachRun ==
    /\ Done = {} => agg_data = <<>>
    /\ \A k \in 1..Len(agg_data) :
          /\ agg_data[k].val[1] = SuccessSum(Done, agg_data[k].key)
          /\ agg_data[k].val[2] = RequestSum(Done, agg_data[k].key)
    /\ pcMain \in {"snapshot", "exit"} =>
          \A k \in 1..Len(results) :
              LET key == <<results[k].application, results[k].version>>
              IN /\ results[k].total_success = SuccessSum(Done, key)
                 /\ results[k].total_requests = RequestSum(Done, key)

\* The report of the run before, of two servers, is in the output file;
\* this run, again of two servers that answered, has the same totals.
C24_Witness ==
    /\ pcMain = "snapshot"
    /\ Len(report) = 1
    /\ Len(report[1]) = 1
    /\ report[1][1].total_requests = 4
    /\ Cardinality(Done) = 2
    /\ Len(results) = 1
    /\ results[1].total_requests = 4
    /\ results[1].total_success = report[1][1].total_success

\* The addresses a servers file holds here.
Addresses == <<"server-0001", "server-0002">>

\* The positions of address a in the list.
PositionsOf(a) == {i \in Tasks : servers[i] = a}

\* How often address a was fetched, and how many of its records were
\* ingested.
FetchesOf(a) ==
    SumTo([i \in Tasks |-> IF servers[i] = a THEN fetched[i] ELSE 0],
          Len(servers))

IngestedOf(a) ==
    SumTo([i \in Tasks |-> IF servers[i] = a THEN ingested[i] ELSE 0],
          Len(servers))

\* What the records fetched from address a add to the bucket of `key`.
ContributionOf(a, key) ==
    <<SuccessSum(PositionsOf(a) \cap Done, key),
      RequestSum(PositionsOf(a) \cap Done, key)>>

\* C25: the list of servers is not de-duplicated: an address that stands k
\* times in the list is fetched k times in a run, every record fetched is
\* ingested, and a bucket holds the counts of an address once for each of
\* its successful fetches.
C25_DuplicatesFetchedAgain ==
    pcMain \in {"snapshot", "exit"} =>
        /\ \A i \in Tasks : \E a \in 1..Len(Addresses) : servers[i] = Addresses[a]
        /\ \A a \in 1..Len(Addresses) :
              /\ FetchesOf(Addresses[a]) = Cardinality(PositionsOf(Addresses[a]))
              /\ IngestedOf(Addresses[a]) =
                    Cardinality(PositionsOf(Addresses[a]) \cap Done)
        /\ \A k \in 1..Len(agg_data) :
              /\ agg_data[k].val[1] =
                    SumTo([a \in 1..Len(Addresses) |->
                              ContributionOf(Addresses[a], agg_data[k].key)[1]],
                          Len(Addresses))
              /\ agg_data[k].val[2] =
                    SumTo([a \in 1..Len(Addresses) |->
                              ContributionOf(Addresses[a], agg_data[k].key)[2]],
                          Len(Addresses))

\* The first and the third line of the file are the same address; it was
\* fetched twice and its counts (1, 2) stand twice in the bucket.
C25_Witness ==
    /\ pcMain = "exit"
    /\ Len(servers) = 3
    /\ servers[1] = servers[3]
    /\ servers[2] # servers[1]
    /\ FetchesOf(servers[1]) = 2
    /\ Done = {1, 3}
    /\ resp[1] = resp[3]
    /\ agg_data = <<[key |-> RecordKey(1), val |-> <<2, 4>>]>>

====
